---- MODULE Spec2Model ----
(***************************************************************************)
(* Model of update_localization_keys.py: the embedded key_mappings table,  *)
(* the substitution pass of update_file (str.replace escaping, the two     *)
(* regular expressions built per key, re.sub), the compare-then-write step *)
(* with its exception handler, and main's walk over the tree.              *)
(*                                                                         *)
(* Text is modelled as TLA+ strings, character by character (SubSeq, Len   *)
(* and \o on strings).  The four non-ASCII characters of the value of      *)
(* 'money_sent_successfully' are written "~": they are ordinary characters *)
(* for every operation of the script, and the module's lexer is ASCII.     *)
(***************************************************************************)
EXTENDS Integers, Sequences, FiniteSets, TLC

VARIABLES
  \* --- the substitution pass on one text (specification SpecPass) ---
  raw,        \* the characters of the file before update_file
  content,    \* the text read from the file (update_file's `content` after line 193)
  result,     \* `content` after the loop of lines 198-209
  written,    \* the characters of the file after update_file
  permuted,   \* the text the loop gives with the pairs taken in the order `order`
  order,      \* that order: a permutation of the table's indices
  phase,      \* "read" (before the loop), "done" (after it), "permuted", "off"
  \* --- main over a tree of files (specification Spec) ---
  disk,       \* path -> content of the file on disk
  mtime,      \* path -> number of times the file was truncated or written
  mode,       \* path -> what the file system allows on the file
  pc,         \* "idle", "walk" (inside main's loops), "done" (main returned)
  run,        \* number of runs of main started
  dirIdx,     \* os.walk: index of the directory being listed
  todo,       \* os.walk: the names of `files` the inner loop has not reached yet
  log,        \* stdout of the current run: <<"Updated" | "Error updating", path>>
  prevClean,  \* whether the previous run printed no error
  disk0,      \* the disk as the current run found it
  mtime0,     \* the modification counts as the current run found them
  calls,      \* path -> calls of update_file in the current run
  ropen,      \* path -> open(filepath, 'r') calls in the current run
  wopen,      \* path -> open(filepath, 'w') calls in the current run
  frame       \* path -> update_file's locals when it last returned

passVars == <<raw, content, result, written, permuted, order, phase>>
mainVars == <<disk, mtime, mode, pc, run, dirIdx, todo, log, prevClean, disk0,
              mtime0, calls, ropen, wopen, frame>>
vars == <<passVars, mainVars>>

(* The dict literal of lines 7-187, in definition order. *)
key_mappings_items ==
  <<
    <<"app_name", "Lumen">>,
    <<"settings", "Settings">>,
    <<"done", "Done">>,
    <<"cancel", "Cancel">>,
    <<"ok", "OK">>,
    <<"retry", "Retry">>,
    <<"continue", "Continue">>,
    <<"back", "Back">>,
    <<"next", "Next">>,
    <<"save", "Save">>,
    <<"delete", "Delete">>,
    <<"edit", "Edit">>,
    <<"close", "Close">>,
    <<"send", "Send">>,
    <<"receive", "Receive">>,
    <<"balance", "Balance">>,
    <<"payment_history", "Payment History">>,
    <<"wallet_info", "Wallet Info">>,
    <<"pending", "Pending">>,
    <<"completed", "Completed">>,
    <<"failed", "Failed">>,
    <<"sent", "Sent">>,
    <<"received", "Received">>,
    <<"created", "Created">>,
    <<"timed_out", "Timed Out">>,
    <<"refundable", "Refundable">>,
    <<"refund_pending", "Refund Pending">>,
    <<"waiting_fee_acceptance", "Waiting Fee Acceptance">>,
    <<"send_payment", "Send Payment">>,
    <<"paste_invoice", "Paste Invoice">>,
    <<"scan_qr", "Scan QR">>,
    <<"amount", "Amount">>,
    <<"description", "Description">>,
    <<"prepare_payment", "Prepare Payment">>,
    <<"send_now", "Send Now">>,
    <<"payment_details", "Payment Details">>,
    <<"fee_details", "Fee Details">>,
    <<"receive_payment", "Receive Payment">>,
    <<"create_invoice", "Create invoice">>,
    <<"invoice_created", "Invoice Created">>,
    <<"you_receive", "You receive">>,
    <<"service_fee", "Service fee">>,
    <<"copy_invoice", "Copy Invoice">>,
    <<"share_invoice", "Share Invoice">>,
    <<"filter", "Filter">>,
    <<"all_payments", "All">>,
    <<"sent_payments", "Sent">>,
    <<"received_payments", "Received">>,
    <<"pending_payments", "Pending">>,
    <<"completed_payments", "Completed">>,
    <<"failed_payments", "Failed">>,
    <<"get_money_back", "Get Money Back">>,
    <<"money_to_get_back", "Money to Get Back">>,
    <<"payment_failed", "Payment Failed">>,
    <<"get_your_money_back", "Get Your Money Back">>,
    <<"money_sent_successfully", "Money Sent Successfully! ~~~~">>,
    <<"great", "Great!">>,
    <<"refund_success_message", "Your money has been sent back to your Bitcoin wallet. It should arrive within the selected timeframe.">>,
    <<"refund_explanation", "These payments didn't go through. Tap 'Get Money Back' to return the funds to your Bitcoin wallet.">>,
    <<"currency", "Currency">>,
    <<"language", "Language">>,
    <<"security", "Security">>,
    <<"about", "About">>,
    <<"logout", "Logout">>,
    <<"delete_wallet", "Delete Wallet">>,
    <<"export_seed", "Export Seed Phrase">>,
    <<"import_wallet", "Import Wallet">>,
    <<"search_currencies", "Search currencies...">>,
    <<"loading_currencies", "Loading currencies...">>,
    <<"welcome_to_lumen", "Welcome to Lumen!">>,
    <<"your_wallet_is_ready", "Your Lightning wallet is ready to use">>,
    <<"start_using_lumen", "Start Using Lumen">>,
    <<"create_new_wallet", "Create New Wallet">>,
    <<"import_existing_wallet", "Import Existing Wallet">>,
    <<"wallet_choice_title", "Choose Wallet Option">>,
    <<"wallet_choice_subtitle", "Create a new wallet or import an existing one">>,
    <<"connected", "Connected">>,
    <<"disconnected", "Disconnected">>,
    <<"connecting", "Connecting...">>,
    <<"connection_status", "Connection Status">>,
    <<"balance_details", "Balance Details">>,
    <<"total_balance", "Total Balance">>,
    <<"pending_receive", "Pending Receive">>,
    <<"pending_send", "Pending Send">>,
    <<"payment_limits", "Payment Limits">>,
    <<"loading_limits", "Loading limits...">>,
    <<"error_loading_limits", "Error loading limits">>,
    <<"no_limits_loaded", "No limits loaded">>,
    <<"send_range", "Send Range">>,
    <<"receive_range", "Receive Range">>,
    <<"liquid_tip", "Liquid Tip">>,
    <<"find_bitcoin_places", "Find Bitcoin places near you">>,
    <<"getting_location", "Getting your location...">>,
    <<"no_places_nearby", "No Bitcoin places found nearby">>,
    <<"places_near_you", "%d place%@ to spend bitcoin near you">>,
    <<"location_required", "Location Required">>,
    <<"find_bitcoin_places_title", "Find Bitcoin Places Near You">>,
    <<"location_permission_message", "We use your location to show nearby businesses that accept Bitcoin payments. Your location stays private and is never shared with third parties.">>,
    <<"enable_location", "Enable Location">>,
    <<"open_settings", "Open Settings">>,
    <<"lightning_network", "Lightning Network">>,
    <<"credit_card_fee", "Credit Card (3%)">>,
    <<"bank_wire_fee", "Bank Wire ($25)">>,
    <<"recommended", "RECOMMENDED">>,
    <<"insufficient_funds", "Insufficient funds. You don't have enough sats for this payment.">>,
    <<"payment_expired", "This payment request has expired. Please request a new invoice.">>,
    <<"invalid_payment", "Invalid payment request. Please check the QR code or invoice.">>,
    <<"network_error", "Network error. Please check your internet connection and try again.">>,
    <<"channel_issue", "Lightning channel issue. Please try again in a moment.">>,
    <<"invalid_invoice", "Invalid Lightning invoice. Please check the payment request.">>,
    <<"invalid_amount", "Invalid amount">>,
    <<"payment_request_expired", "This payment request has expired">>,
    <<"try_again", "Try Again">>,
    <<"open_settings_button", "Open Settings">>,
    <<"got_it", "Got It">>,
    <<"loading", "Loading...">>,
    <<"processing", "Processing...">>,
    <<"please_wait_processing", "Please wait...">>,
    <<"lumen_payment", "Lumen payment">>,
    <<"default_description", "Lightning payment">>,
    <<"sats", "sats">>,
    <<"bitcoin", "Bitcoin">>,
    <<"words", "words">>,
    <<"word", "word">>,
    <<"now", "now">>,
    <<"minutes_ago", "%d minutes ago">>,
    <<"hours_ago", "%d hours ago">>,
    <<"days_ago", "%d days ago">>,
    <<"enter_recovery_phrase", "Enter your %d-word recovery phrase">>,
    <<"word_count", "Word Count:">>,
    <<"select_word_count", "Select Word Count">>,
    <<"word_count_question", "How many words does your seed phrase have?">>,
    <<"paste_seed_phrase", "Paste Seed Phrase">>,
    <<"paste_confirmation", "Found %d words in clipboard. Paste them into the form?">>,
    <<"import_wallet_button", "Import Wallet">>,
    <<"importing_wallet", "Importing Wallet...">>,
    <<"place_singular", "">>,
    <<"place_plural", "s">>
  >>

(* A table that maps one old key to another old key: 'sent_payments' to *)
(* the key 'sent' instead of the text 'Sent'.                          *)
key_mappings_chained ==
  [i \in 1..Len(key_mappings_items) |->
     IF key_mappings_items[i][1] = "sent_payments"
       THEN <<"sent_payments", "sent">>
       ELSE key_mappings_items[i]]

(* key_mappings.items() (line 198): the pairs in insertion order. *)
key_mappings == key_mappings_items

NKeys == Len(key_mappings)
old_key(i) == key_mappings[i][1]
new_key(i) == key_mappings[i][2]

(* ---------------- text primitives ---------------- *)

CharAt(s, i) == SubSeq(s, i, i)
Rest(s, i) == SubSeq(s, i, Len(s))

RECURSIVE StrReplaceRange(_, _, _, _, _)
StrReplaceRange(s, old, new, lo, hi) ==
  IF lo > hi THEN ""
  ELSE IF lo = hi THEN (IF CharAt(s, lo) = old THEN new ELSE CharAt(s, lo))
  ELSE StrReplaceRange(s, old, new, lo, (lo + hi) \div 2)
         \o StrReplaceRange(s, old, new, (lo + hi) \div 2 + 1, hi)

(* str.replace(old, new) for a one-character `old`: every occurrence is *)
(* replaced, every other character kept (the text is split in halves    *)
(* only to keep the evaluation shallow).                                *)
StrReplace(s, old, new) == StrReplaceRange(s, old, new, 1, Len(s))

RECURSIVE DecodeRange(_, _, _)
DecodeRange(s, lo, hi) ==
  IF lo > hi THEN ""
  ELSE IF lo = hi
         THEN (IF CharAt(s, lo) = "\r"
                 THEN (IF lo < Len(s) /\ CharAt(s, lo + 1) = "\n" THEN "" ELSE "\n")
                 ELSE CharAt(s, lo))
  ELSE DecodeRange(s, lo, (lo + hi) \div 2) \o DecodeRange(s, (lo + hi) \div 2 + 1, hi)

(* lines 192-193: open(filepath, 'r', encoding='utf-8') and f.read() of a *)
(* decodable file.  newline is left at its default: "\r\n" and a lone     *)
(* "\r" are both read as "\n".                                           *)
Decode(s) == DecodeRange(s, 1, Len(s))

(* os.linesep where the script is run (POSIX) *)
os_linesep == "\n"

(* lines 213-214: open(filepath, 'w', encoding='utf-8') and f.write():   *)
(* each "\n" is written as os.linesep.                                   *)
Encode(s) == StrReplace(s, "\n", os_linesep)

(* Only the double quote is escaped. *)
escaped_new_key_double_only(v) == StrReplace(v, "\"", "\\\"")

(* line 200: new_key.replace('"', '\\"').replace("'", "\\'") *)
escaped_new_key(v) == StrReplace(StrReplace(v, "\"", "\\\""), "'", "\\'")

(* line 203: f'L\\("{old_key}"\\)'  -- the regular expression text *)
pattern1(k) == "L\\(\"" \o k \o "\"\\)"
(* line 204: f"L\\('{old_key}'\\)" *)
pattern2(k) == "L\\('" \o k \o "'\\)"
(* line 206: f'L("{escaped_new_key}")' -- the replacement template *)
replacement(v) == "L(\"" \o escaped_new_key(v) \o "\")"

(* Whether position i of the text is preceded by an odd run of backslashes, *)
(* i.e. is the character a backslash escapes.                               *)
Escaped(t, i) ==
  LET bs == CHOOSE n \in 0..(i - 1) :
               /\ \A j \in (i - n)..(i - 1) : CharAt(t, j) = "\\"
               /\ (n = i - 1 \/ CharAt(t, i - n - 1) # "\\")
  IN bs % 2 = 1

RECURSIVE RegexLiteralRange(_, _, _)
RegexLiteralRange(p, lo, hi) ==
  IF lo > hi THEN ""
  ELSE IF lo = hi
         THEN (IF CharAt(p, lo) = "\\" /\ ~Escaped(p, lo) /\ lo < Len(p)
                 THEN "" ELSE CharAt(p, lo))
  ELSE RegexLiteralRange(p, lo, (lo + hi) \div 2)
         \o RegexLiteralRange(p, (lo + hi) \div 2 + 1, hi)

(* re.compile of a pattern whose only operators are escaped ones: the   *)
(* text it matches, case-sensitively (no flags at lines 208-209).  An   *)
(* escaping backslash is dropped and the character after it is literal. *)
RegexLiteral(p) == RegexLiteralRange(p, 1, Len(p))

RECURSIVE ExpandTemplateRange(_, _, _)
ExpandTemplateRange(t, lo, hi) ==
  IF lo > hi THEN ""
  ELSE IF lo = hi
         THEN (IF /\ CharAt(t, lo) = "\\" /\ ~Escaped(t, lo)
                  /\ lo < Len(t) /\ CharAt(t, lo + 1) = "\\"
                 THEN "" ELSE CharAt(t, lo))
  ELSE ExpandTemplateRange(t, lo, (lo + hi) \div 2)
         \o ExpandTemplateRange(t, (lo + hi) \div 2 + 1, hi)

(* re.sub's handling of the replacement string: "\\" collapses to one  *)
(* backslash; a backslash before any other non-alphanumeric character  *)
(* is left alone, both characters are emitted.                         *)
ExpandTemplate(t) == ExpandTemplateRange(t, 1, Len(t))

(* The start positions >= i at which `lit` occurs in s. *)
MatchesFrom(lit, s, i) ==
  {p \in i..(Len(s) - Len(lit) + 1) : SubSeq(s, p, p + Len(lit) - 1) = lit}

RECURSIVE SubFrom(_, _, _, _)
SubFrom(lit, out, s, i) ==
  LET ms == MatchesFrom(lit, s, i)
  IN IF ms = {} THEN Rest(s, i)
     ELSE LET p == CHOOSE m \in ms : \A q \in ms : m <= q
          IN SubSeq(s, i, p - 1) \o out \o SubFrom(lit, out, s, p + Len(lit))

(* re.sub(pattern, repl, string) once the pattern is compiled and the   *)
(* template parsed: the leftmost non-overlapping matches, scanned left  *)
(* to right, each replaced by the expanded template; the replaced text  *)
(* is not scanned again.                                                *)
ReSub(lit, out, s) == SubFrom(lit, out, s, 1)

(* What lines 200-206 build for pair i, as re sees it: the text each    *)
(* pattern matches and the text each match is replaced by.  They depend *)
(* on the table only, and are computed once (re caches compilations).   *)
Compiled ==
  [i \in 1..NKeys |->
     [p1  |-> RegexLiteral(pattern1(old_key(i))),
      p2  |-> RegexLiteral(pattern2(old_key(i))),
      out |-> ExpandTemplate(replacement(new_key(i)))]]

(* Only the double-quoted pattern is substituted. *)
ApplyPair_double_only(s, i) == ReSub(Compiled[i].p1, Compiled[i].out, s)

(* lines 199-209: the body of the loop for one (old_key, new_key) pair *)
ApplyPair(s, i) ==
  ReSub(Compiled[i].p2, Compiled[i].out, ReSub(Compiled[i].p1, Compiled[i].out, s))

RECURSIVE ApplyPairs(_, _, _, _)
(* The loop body for the pairs ord[lo], ..., ord[hi], in that order. *)
(* The range is split in halves, and the text after the first half is    *)
(* evaluated (its length taken) before the second half starts, only to   *)
(* keep the evaluation shallow.                                          *)
ApplyPairs(s, ord, lo, hi) ==
  IF lo > hi THEN s
  ELSE IF lo = hi THEN ApplyPair(s, ord[lo])
  ELSE LET half == ApplyPairs(s, ord, lo, (lo + hi) \div 2)
       IN IF Len(half) >= 0
            THEN ApplyPairs(half, ord, (lo + hi) \div 2 + 1, hi)
            ELSE half

(* key_mappings.items(): the pairs in definition order *)
TableOrder == [i \in 1..NKeys |-> i]

(* lines 198-209: the whole substitution loop of update_file *)
Substitute(s) == ApplyPairs(s, TableOrder, 1, NKeys)


(* Another order of the pairs: the table reversed, rotated, or its odd   *)
(* positions followed by its even ones.                                  *)
Reversed == [i \in 1..NKeys |-> NKeys + 1 - i]
Rotated == [i \in 1..NKeys |-> ((i - 1 + NKeys \div 2) % NKeys) + 1]
OddsFirst ==
  [i \in 1..NKeys |->
     IF i <= (NKeys + 1) \div 2 THEN 2 * i - 1 ELSE 2 * (i - (NKeys + 1) \div 2)]
Orders == {Reversed, Rotated, OddsFirst}

(* ---------------- the texts the pass is run on ---------------- *)

MaxCalls == 2

Heads == {"L", "XL"}
Quotes == {"\"", "'"}
Args == {"sent", "sent_payments", "sent_payments_extra", "sen", "Sent",
         "sats", "refund_explanation", "receive"}

(* One call-like text: a name ending in L, a quote, an argument, a quote. *)
Calls == {h \o "(" \o q1 \o a \o q2 \o ")" :
            h \in Heads, q1 \in Quotes, a \in Args, q2 \in Quotes}

(* Further text on the same line. *)
More == {" + L('sent')", "myL(\"word\")", "L(\"place_singular\")",
         "\r\nL('credit_card_fee')"}

RECURSIVE Tails(_)
Tails(n) ==
  IF n = 0 THEN {""}
  ELSE Tails(n - 1) \cup {t \o m : t \in Tails(n - 1), m \in More}

Inputs == {c \o t : c \in Calls, t \in Tails(MaxCalls - 1)}

(* ---------------- the tree main walks ---------------- *)

lumen_dir == "Lumen"

(* os.walk(lumen_dir), top-down: the directories in the order they are *)
(* yielded, each with its `files`.                                     *)
WalkDirs == <<lumen_dir, lumen_dir \o "/Views">>
Files ==
  [d \in 1..Len(WalkDirs) |->
     IF d = 1 THEN {"App.swift", "Send.swift"} ELSE {"Strings.swift.bak"}]

(* os.path.join(root, file), line 227 *)
Join(root, file) == root \o "/" \o file

Paths == UNION {{Join(WalkDirs[d], f) : f \in Files[d]} : d \in 1..Len(WalkDirs)}

(* str.endswith(suffix) *)
EndsWith(s, suffix) ==
  /\ Len(s) >= Len(suffix)
  /\ SubSeq(s, Len(s) - Len(suffix) + 1, Len(s)) = suffix

(* str.__contains__: suffix anywhere in s *)
Contains(s, suffix) ==
  \E i \in 1..(Len(s) - Len(suffix) + 1) : SubSeq(s, i, i + Len(suffix) - 1) = suffix

(* '.swift' in file *)
IsTarget_anywhere(file) == Contains(file, ".swift")

(* line 226: file.endswith('.swift') *)
IsTarget(file) == EndsWith(file, ".swift")

(* What the file system does with a file: everything ("ok"); open for  *)
(* reading raises PermissionError ("unreadable"); the bytes are not     *)
(* UTF-8 and read raises UnicodeDecodeError ("undecodable"); open for   *)
(* writing raises PermissionError ("readonly"); the open for writing    *)
(* truncates and the write or the close raises OSError ("nospace").     *)
Modes == {"ok", "unreadable", "undecodable", "readonly", "nospace"}

MaxRuns == 2

FileContents == {"L('sent_payments') L(\"ok\")\r\n",
                 "L(\"sats\")",
                 "L(\"sent_payments_extra\")"}

NoFrame == [read |-> FALSE, original_content |-> "", content |-> "", e |-> "none"]
Zero == [p \in Paths |-> 0]

(* ---------------- update_file on one file ---------------- *)

(* The file is written whatever the loop did. *)
Changed_always(new, original) == TRUE

(* line 212: content != original_content *)
Changed(new, original) == new # original

PassIdle ==
  /\ raw = "" /\ content = "" /\ result = "" /\ written = ""
  /\ permuted = "" /\ order = <<>> /\ phase = "off"

MainIdle ==
  /\ disk = [p \in Paths |-> ""] /\ mtime = Zero /\ mode = [p \in Paths |-> "ok"]
  /\ pc = "off" /\ run = 0 /\ dirIdx = 0 /\ todo = {} /\ log = <<>>
  /\ prevClean = TRUE /\ disk0 = [p \in Paths |-> ""] /\ mtime0 = Zero
  /\ calls = Zero /\ ropen = Zero /\ wopen = Zero
  /\ frame = [p \in Paths |-> NoFrame]

InitPass ==
  /\ raw \in Inputs
  /\ content = "" /\ result = "" /\ written = ""
  /\ permuted = "" /\ order = <<>> /\ phase = "read"
  /\ MainIdle

(* lines 192-215 on a file that can be read and written: the read, the *)
(* loop over key_mappings.items(), the write when the text changed     *)
Rewrite ==
  /\ phase = "read"
  /\ content' = Decode(raw)
  /\ result' = Substitute(content')
  /\ written' = IF Changed(result', content') THEN Encode(result') ELSE raw
  /\ phase' = "done"
  /\ UNCHANGED <<raw, permuted, order, mainVars>>

(* the same loop with the pairs in another order *)
RewritePermuted ==
  /\ phase = "done"
  /\ \E o \in Orders :
       /\ order' = o
       /\ permuted' = ApplyPairs(content, o, 1, NKeys)
  /\ phase' = "permuted"
  /\ UNCHANGED <<raw, content, result, written, mainVars>>

NextPass == Rewrite \/ RewritePermuted

SpecPass == InitPass /\ [][NextPass]_vars

(* ---------------- main ---------------- *)

Init ==
  /\ PassIdle
  /\ disk \in {d \in [Paths -> FileContents] :
                 \A p \in Paths : ~EndsWith(p, ".swift") => d[p] = "L('sent_payments') L(\"ok\")\r\n"}
  /\ mode \in {m \in [Paths -> Modes] :
                 \A p \in Paths : ~EndsWith(p, ".swift") => m[p] \in {"ok", "unreadable"}}
  /\ mtime = Zero
  /\ pc = "idle" /\ run = 0 /\ dirIdx = 0 /\ todo = {} /\ log = <<>>
  /\ prevClean = TRUE /\ disk0 = disk /\ mtime0 = Zero
  /\ calls = Zero /\ ropen = Zero /\ wopen = Zero
  /\ frame = [p \in Paths |-> NoFrame]

HasError(lg) == \E i \in 1..Len(lg) : lg[i][1] = "Error updating"

(* main is started (again): a new process, a new stdout *)
StartRun ==
  /\ pc \in {"idle", "done"}
  /\ run < MaxRuns
  /\ run' = run + 1
  /\ pc' = "walk"
  /\ dirIdx' = 1
  /\ todo' = Files[1]
  /\ prevClean' = ~HasError(log)
  /\ log' = <<>>
  /\ disk0' = disk
  /\ mtime0' = mtime
  /\ calls' = Zero /\ ropen' = Zero /\ wopen' = Zero
  /\ frame' = [p \in Paths |-> NoFrame]
  /\ UNCHANGED <<disk, mtime, mode, passVars>>

(* lines 224-225: the loops move on to the next file, the next directory *)
(* with files, or main returns.                                          *)
Advance(rest) ==
  IF rest # {} THEN /\ todo' = rest /\ dirIdx' = dirIdx /\ pc' = "walk"
  ELSE IF dirIdx < Len(WalkDirs)
         THEN /\ todo' = Files[dirIdx + 1] /\ dirIdx' = dirIdx + 1 /\ pc' = "walk"
         ELSE /\ todo' = {} /\ dirIdx' = dirIdx /\ pc' = "done"

(* An exception nothing catches leaves main: the process ends there. *)
Abort == /\ pc' = "aborted" /\ UNCHANGED <<todo, dirIdx>>

(* except OSError: *)
Catches_OSError_only(exc) == exc \in {"PermissionError", "OSError"}

(* line 217: except Exception -- every class that open, read and write raise *)
Catches(exc) == exc \in {"PermissionError", "UnicodeDecodeError", "OSError"}

(* lines 217-218: a caught exception is printed and update_file returns *)
ExceptHandler(lg, filepath, exc) ==
  IF Catches(exc) THEN Append(lg, <<"Error updating", filepath>>) ELSE lg

(* What a failed write leaves in the file the open has truncated. *)
PartialWrites(new) == {"", SubSeq(Encode(new), 1, Len(Encode(new)) \div 2)}

Locals(original, new, exc) ==
  [read |-> TRUE, original_content |-> original, content |-> new, e |-> exc]

(* line 192 or 193 raises *)
ReadFails(fp) ==
  /\ mode[fp] \in {"unreadable", "undecodable"}
  /\ LET exc == IF mode[fp] = "unreadable" THEN "PermissionError"
                ELSE "UnicodeDecodeError"
     IN /\ log' = ExceptHandler(log, fp, exc)
        /\ frame' = [frame EXCEPT ![fp] = [NoFrame EXCEPT !.e = exc]]
  /\ ropen' = [ropen EXCEPT ![fp] = @ + 1]
  /\ UNCHANGED <<disk, mtime, wopen>>

(* lines 192-212: read, substitute, nothing to write *)
Unchanged(fp, original, new) ==
  /\ mode[fp] \notin {"unreadable", "undecodable"}
  /\ ~Changed(new, original)
  /\ ropen' = [ropen EXCEPT ![fp] = @ + 1]
  /\ frame' = [frame EXCEPT ![fp] = Locals(original, new, "none")]
  /\ UNCHANGED <<disk, mtime, wopen, log>>

(* line 213 raises: the file cannot be opened for writing *)
OpenFails(fp, original, new) ==
  /\ mode[fp] = "readonly"
  /\ Changed(new, original)
  /\ ropen' = [ropen EXCEPT ![fp] = @ + 1]
  /\ wopen' = [wopen EXCEPT ![fp] = @ + 1]
  /\ log' = ExceptHandler(log, fp, "PermissionError")
  /\ frame' = [frame EXCEPT ![fp] = Locals(original, new, "PermissionError")]
  /\ UNCHANGED <<disk, mtime>>

(* line 213 truncates the file, line 214 or the close raises *)
WriteFails(fp, original, new) ==
  /\ mode[fp] = "nospace"
  /\ Changed(new, original)
  /\ ropen' = [ropen EXCEPT ![fp] = @ + 1]
  /\ wopen' = [wopen EXCEPT ![fp] = @ + 1]
  /\ \E left \in PartialWrites(new) : disk' = [disk EXCEPT ![fp] = left]
  /\ mtime' = [mtime EXCEPT ![fp] = @ + 1]
  /\ log' = ExceptHandler(log, fp, "OSError")
  /\ frame' = [frame EXCEPT ![fp] = Locals(original, new, "OSError")]

(* lines 213-215: the file is overwritten and reported *)
Writes(fp, original, new) ==
  /\ mode[fp] = "ok"
  /\ Changed(new, original)
  /\ ropen' = [ropen EXCEPT ![fp] = @ + 1]
  /\ wopen' = [wopen EXCEPT ![fp] = @ + 1]
  /\ disk' = [disk EXCEPT ![fp] = Encode(new)]
  /\ mtime' = [mtime EXCEPT ![fp] = @ + 1]
  /\ log' = Append(log, <<"Updated", fp>>)
  /\ frame' = [frame EXCEPT ![fp] = Locals(original, new, "none")]

(* lines 189-218: update_file(filepath) *)
update_file(fp) ==
  /\ calls' = [calls EXCEPT ![fp] = @ + 1]
  /\ LET original == Decode(disk[fp])
         new == Substitute(original)
     IN \/ ReadFails(fp)
        \/ Unchanged(fp, original, new)
        \/ OpenFails(fp, original, new)
        \/ WriteFails(fp, original, new)
        \/ Writes(fp, original, new)

(* lines 225-228: one turn of the inner loop, on a target file; an *)
(* exception update_file did not catch ends main.                  *)
VisitTarget ==
  /\ pc = "walk"
  /\ \E file \in todo :
       LET filepath == Join(WalkDirs[dirIdx], file)
       IN /\ IsTarget(file)
          /\ update_file(filepath)
          /\ IF frame'[filepath].e # "none" /\ ~Catches(frame'[filepath].e)
               THEN Abort
               ELSE Advance(todo \ {file})
  /\ UNCHANGED <<mode, run, prevClean, disk0, mtime0, passVars>>

(* lines 225-226: one turn of the inner loop, on any other file *)
SkipOther ==
  /\ pc = "walk"
  /\ \E file \in todo :
       /\ ~IsTarget(file)
       /\ Advance(todo \ {file})
  /\ UNCHANGED <<disk, mtime, mode, run, log, prevClean, disk0, mtime0, calls,
                 ropen, wopen, frame, passVars>>

Next == StartRun \/ VisitTarget \/ SkipOther

Spec == Init /\ [][Next]_vars
(***************************************************************************)
(* Properties.  The call patterns are described here from the text itself, *)
(* not through the patterns and templates the loop builds.                 *)
(***************************************************************************)

(* The characters i..j of s that exist (a slice). *)
Cut(s, i, j) ==
  LET lo == IF i < 1 THEN 1 ELSE i
      hi == IF j > Len(s) THEN Len(s) ELSE j
  IN IF lo > hi THEN "" ELSE SubSeq(s, lo, hi)

(* The call pattern L("k") or L('k'), with the same quote on both sides. *)
CallText(k, q) == "L(" \o q \o k \o q \o ")"
CallLen(i) == Len(old_key(i)) + 5

(* Every place of s where a call pattern of a table key stands. *)
Occurrences(s) ==
  LET starts == {p \in 1..Len(s) : Cut(s, p, p + 1) = "L("}
  IN {o \in [at : starts, key : 1..NKeys, quote : Quotes] :
        Cut(s, o.at, o.at + CallLen(o.key) - 1) = CallText(old_key(o.key), o.quote)}

(* Number of quote characters among the first j characters of v. *)
QuotesUpTo(v, j) == Cardinality({x \in 1..j : CharAt(v, x) \in Quotes})

(* Length of L("e(v)") for the value of pair i. *)
EmittedLen(i) == 5 + Len(new_key(i)) + QuotesUpTo(new_key(i), Len(new_key(i)))

RECURSIVE Growth(_, _)
(* By how much the text before position p grows when each call of occ *)
(* that starts before p is replaced by a text of length len[its key]. *)
Growth(occ, len) ==
  IF occ = {} THEN 0
  ELSE LET o == CHOOSE x \in occ : TRUE
       IN len[o.key] - CallLen(o.key) + Growth(occ \ {o}, len)

Before(occ, p) == {o \in occ : o.at < p}
Inside(occ, p) == \E o \in occ : o.at <= p /\ p < o.at + CallLen(o.key)

(* The lengths of the texts the loop inserts, and of the texts L("e(v)"). *)
InsertedLen == [i \in 1..NKeys |-> Len(Compiled[i].out)]
EscapedLen == [i \in 1..NKeys |-> EmittedLen(i)]

(* e is v with one backslash put before each quote character. *)
IsEscapeOf(e, v) ==
  /\ Len(e) = Len(v) + QuotesUpTo(v, Len(v))
  /\ \A j \in 1..Len(v) :
       /\ CharAt(e, j + QuotesUpTo(v, j)) = CharAt(v, j)
       /\ CharAt(v, j) \in Quotes => CharAt(e, j + QuotesUpTo(v, j) - 1) = "\\"

(* No double quote of e ends the literal: each follows an odd run of backslashes. *)
NoBareDoubleQuote(e) ==
  \A j \in 1..Len(e) :
    CharAt(e, j) = "\"" =>
      \E n \in 1..(j - 1) :
        /\ n % 2 = 1
        /\ \A x \in (j - n)..(j - 1) : CharAt(e, x) = "\\"
        /\ (n = j - 1 \/ CharAt(e, j - n - 1) # "\\")

IdentChars == "abcdefghijklmnopqrstuvwxyzABCDEFGHIJKLMNOPQRSTUVWXYZ0123456789_"
(* The call at o belongs to a longer identifier that ends in L. *)
Foreign(s, o) == o.at > 1 /\ Contains(IdentChars, CharAt(s, o.at - 1))

InLog(kind, fp) == \E i \in 1..Len(log) : log[i] = <<kind, fp>>
SwiftPaths == {p \in Paths : EndsWith(p, ".swift")}

(* What is kept of a text s in a text t when the call patterns of s whose *)
(* whole quoted argument is a table key are replaced: every other         *)
(* character of s, calls with a longer, a shorter, a differently cased    *)
(* argument or with unlike quotes included, is found unchanged in t,      *)
(* moved only by the growth of the calls replaced before it; an s without *)
(* such a pattern is t.                                                   *)
OnlyKeyCallsDiffer(s, t) ==
  LET occ == Occurrences(s)
  IN /\ Len(t) = Len(s) + Growth(occ, InsertedLen)
     /\ \A p \in 1..Len(s) :
          ~Inside(occ, p) =>
            LET at == p + Growth(Before(occ, p), InsertedLen)
            IN Cut(t, at, at) = CharAt(s, p)
     /\ occ = {} => t = s

(* The loop of lines 198-209 keeps every character of the text it is given *)
(* outside the call patterns of table keys.                                *)
LoopKeepsOtherCharacters ==
  phase = "done" => OnlyKeyCallsDiffer(content, result)

(* C1 as claimed: update_file changes nothing of the file outside the call *)
(* patterns whose whole quoted argument is a table key: every other        *)
(* character of the file is found unchanged in the file after the call,    *)
(* and a file without such a pattern is left as it was.                    *)
C1_OnlyExactKeyCallsRewritten ==
  phase = "done" => OnlyKeyCallsDiffer(raw, written)

(* C2: every occurrence of L("k") and of L('k') in the text is replaced by   *)
(* L("e(v)"), double-quoted, where e(v) is the value v of k with a backslash *)
(* before each double quote and each apostrophe; e(v) holds no unescaped     *)
(* double quote.                                                             *)
C2_CallsBecomeEscapedValue ==
  phase = "done" =>
    LET occ == Occurrences(content)
    IN \A o \in occ :
         LET v == new_key(o.key)
             from == o.at + Growth(Before(occ, o.at), EscapedLen)
             e == Cut(result, from + 3, from + EmittedLen(o.key) - 3)
         IN /\ Cut(result, from, from + 2) = "L(\""
            /\ IsEscapeOf(e, v)
            /\ NoBareDoubleQuote(e)
            /\ Cut(result, from + EmittedLen(o.key) - 2, from + EmittedLen(o.key) - 1)
                 = "\")"

C2_Witness ==
  /\ phase = "done"
  /\ content = "L('refund_explanation') + L('sent')"
  /\ Contains(result, "L(\"These payments didn\\'t go through. Tap \\'Get Money Back\\' to")
  /\ Contains(result, " + L(\"Sent\")")

(* C4 as claimed: after one pass no call pattern of any table key is left. *)
C4_NoKeyCallRemains ==
  phase = "done" => Occurrences(result) = {}

(* C4, amended: after one pass the only call patterns of table keys left are *)
(* double-quoted calls of keys the table maps to themselves.                 *)
C4_OnlySelfMappedCallsRemain ==
  phase = "done" =>
    \A o \in Occurrences(result) :
      o.quote = "\"" /\ new_key(o.key) = old_key(o.key)

C4_Witness ==
  /\ phase = "done"
  /\ content = "L('sats') + L('sent')"
  /\ result = "L(\"sats\") + L(\"Sent\")"

(* No value of the table, inserted as L("value"), is the call pattern of a *)
(* key mapped to another value.                                            *)
NoChainedKeys ==
  \A i, j \in 1..NKeys :
    Compiled[i].out = CallText(old_key(j), "\"") => new_key(j) = new_key(i)

(* C8: the loop gives the same text whatever the order of the pairs (here  *)
(* the table reversed, rotated by half, and odd positions first), and no   *)
(* inserted call is the call pattern of a key mapped to another value.     *)
C8_OrderIndependent ==
  phase = "permuted" => (permuted = result /\ NoChainedKeys)

C8_Witness ==
  /\ phase = "permuted"
  /\ order = Reversed
  /\ content = "L(\"sent_payments\") + L('sent')"
  /\ permuted = "L(\"Sent\") + L(\"Sent\")"

(* C10 as claimed: a call whose name is a longer identifier ending in L is *)
(* not a call of L: a text whose key calls all belong to such identifiers  *)
(* is returned unchanged.                                                  *)
C10_CallNameIsWholeToken ==
  phase = "done" =>
    ((\A o \in Occurrences(content) : Foreign(content, o)) => result = content)

(* C3: a run of main started after a run that printed no error changes no *)
(* file, opens no file for writing and prints no 'Updated' line.          *)
C3_SecondRunChangesNothing ==
  (run >= 2 /\ prevClean) =>
    /\ disk = disk0
    /\ \A p \in Paths : wopen[p] = 0 /\ mtime[p] = mtime0[p] /\ ~InLog("Updated", p)

C3_Witness ==
  /\ run = 2 /\ prevClean /\ pc = "done"
  /\ \E p \in Paths :
       /\ calls[p] = 1 /\ ropen[p] = 1
       /\ disk0[p] = "L(\"Sent\") L(\"OK\")\n"
       /\ disk[p] = disk0[p]

(* The text update_file reads from p in this run, and the text its loop *)
(* makes of it.                                                        *)
TextOf(p) == Decode(disk0[p])
Rewritable(p) == Substitute(TextOf(p)) # TextOf(p)

(* What the file system makes of update_file on p in this run. *)
Raises(p) ==
  \/ mode[p] \in {"unreadable", "undecodable"}
  \/ mode[p] \in {"readonly", "nospace"} /\ Rewritable(p)

(* C5: no exception ends main and the walk always has a next file until it *)
(* returns; when it returns, update_file has been called once on every     *)
(* file whose name ends in .swift and on no other; every such file that    *)
(* raises no error and holds a rewritable call has been rewritten and      *)
(* reported; and 'Error updating' is printed for the files that raised,    *)
(* and only for them.                                                      *)
C5_ErrorIsolation ==
  /\ pc # "aborted"
  /\ pc = "walk" => todo # {}
  /\ pc = "done" =>
       /\ \A p \in Paths : calls[p] = (IF p \in SwiftPaths THEN 1 ELSE 0)
       /\ \A p \in SwiftPaths :
            /\ (~Raises(p) /\ Rewritable(p)) =>
                 (disk[p] = Encode(Substitute(TextOf(p))) /\ InLog("Updated", p))
            /\ InLog("Error updating", p) <=> Raises(p)
       /\ \A p \in Paths \ SwiftPaths : ~InLog("Error updating", p)

C5_Witness ==
  /\ pc = "done" /\ run = 1
  /\ mode[Join(lumen_dir, "App.swift")] = "unreadable"
  /\ log = << <<"Error updating", Join(lumen_dir, "App.swift")>>,
              <<"Updated", Join(lumen_dir, "Send.swift")>> >>
  /\ disk[Join(lumen_dir, "Send.swift")] = "L(\"Sent\") L(\"OK\")\n"

(* C6: update_file opens the file for writing exactly when the text after *)
(* the loop differs from the text read; 'Updated' is printed only for a   *)
(* file just written; a file without a matching call pattern is not       *)
(* written, keeps its content and modification time, and is not reported. *)
C6_WriteOnlyIfChanged ==
  \A p \in Paths :
    /\ wopen[p] <= 1
    /\ wopen[p] = 1 <=> (frame[p].read /\ frame[p].content # frame[p].original_content)
    /\ InLog("Updated", p) =>
         (wopen[p] = 1 /\ disk[p] = Encode(frame[p].content) /\ mtime[p] = mtime0[p] + 1)
    /\ Occurrences(disk0[p]) = {} =>
         /\ wopen[p] = 0 /\ disk[p] = disk0[p] /\ mtime[p] = mtime0[p]
         /\ ~InLog("Updated", p)

C6_Witness ==
  /\ pc = "done"
  /\ \E p, q \in Paths :
       /\ disk0[p] = "L(\"sent_payments_extra\")"
       /\ calls[p] = 1 /\ ropen[p] = 1 /\ wopen[p] = 0 /\ frame[p].read
       /\ InLog("Updated", q) /\ wopen[q] = 1

(* C7: a file whose name does not end in .swift is never opened, for     *)
(* reading or for writing, and keeps its content, whatever calls it      *)
(* holds; the set of files stays what it was.                            *)
C7_NonTargetUntouched ==
  /\ DOMAIN disk = Paths
  /\ \A p \in Paths \ SwiftPaths :
       /\ calls[p] = 0 /\ ropen[p] = 0 /\ wopen[p] = 0
       /\ disk[p] = "L('sent_payments') L(\"ok\")\r\n" /\ mtime[p] = 0

C7_Witness ==
  /\ pc = "done"
  /\ disk[Join(WalkDirs[2], "Strings.swift.bak")] = "L('sent_payments') L(\"ok\")\r\n"
  /\ InLog("Updated", Join(lumen_dir, "App.swift"))

(* C9 as claimed: a file for which 'Error updating' is printed has, on    *)
(* disk, the content it had before the run.                               *)
C9_FailedFileKeepsContent ==
  \A p \in Paths : InLog("Error updating", p) => disk[p] = disk0[p]
====
